---- MODULE Spec2Model ----
(***************************************************************************)
(* Email-to-PDF converter: the Flask transport layer (app/main.py) and the *)
(* orchestrator, parser, attachment classifier and merger                  *)
(* (app/email_processor.py).                                               *)
(*                                                                         *)
(* Strings that the code inspects character by character (file names,      *)
(* paths, the first bytes of a file) are sequences of character codes, so  *)
(* that lower(), splitext(), startswith() and string comparison are        *)
(* computed, not assumed.  Strings the code only passes around are TLA+    *)
(* strings.                                                                *)
(***************************************************************************)
EXTENDS Integers, Sequences, FiniteSets, TLC

VARIABLES
    entry,            \* how the job was started: "none", "cli", "convert", "download"
    tpc,              \* position of the caller: "idle", "processing", "responded"
    request,          \* the HTTP request and what the remote server will answer
    response,         \* the HTTP response / CLI exit, or NoResponse
    tempInput,        \* temp_email_path on disk: "absent", "present", "deleted"
    tempOutput,       \* output_pdf_path on disk: "absent", "present", "deleted"
    unlinkTried,      \* which of {"input","output"} os.unlink was called on
    email_file_path,  \* argument of process_email_to_pdf (character codes)
    content,          \* the first bytes of the file at email_file_path
    fileExists,       \* whether email_file_path can be opened
    pc,               \* position inside process_email_to_pdf
    ext,              \* local ext of process_email_to_pdf (character codes)
    parser,           \* which parser was called: "none", "eml", "msg"
    sniffed,          \* whether the file was opened to read its header (line 429)
    email_data,       \* the parsed Message Record
    idx,              \* loop index of the attachment loop (line 465)
    pdf_list,         \* local pdf_list of process_email_to_pdf
    disk,             \* the PDF pages written into temp_dir
    attLog,           \* per call of convert_attachment_to_pdf: what happened
    merged,           \* what merge_pdfs appended, in order
    result,           \* return value of process_email_to_pdf, or NoResult
    parts,            \* a message handed to parse_eml_file on its own
    parsed            \* what parse_eml_file returned for parts, or NotParsed

vars == <<entry, tpc, request, response, tempInput, tempOutput, unlinkTried,
          email_file_path, content, fileExists, pc, ext, parser, sniffed,
          email_data, idx, pdf_list, disk, attLog, merged, result, parts, parsed>>

transportVars == <<entry, tpc, request, response, tempInput, tempOutput, unlinkTried,
                   email_file_path, content, fileExists>>

jobVars == <<pc, ext, parser, sniffed, email_data, idx, pdf_list, disk, attLog,
             merged, result>>

parseVars == <<parts, parsed>>

(***************************************************************************)
(* Bounds of the model.                                                    *)
(***************************************************************************)
\* the longest walk of MIME parts (or list of .msg attachments) of a message
MaxParts == 3

(***************************************************************************)
(* Strings as character codes.                                             *)
(***************************************************************************)
\* str.lower() on one character: 'A'..'Z' (65..90) map to 'a'..'z'
LowerChar(c) == IF c >= 65 /\ c <= 90 THEN c + 32 ELSE c

\* str.lower()
Lower(s) == [i \in 1..Len(s) |-> LowerChar(s[i])]

\* bytes.startswith(prefix)
StartsWith(s, prefix) ==
    /\ Len(s) >= Len(prefix)
    /\ SubSeq(s, 1, Len(prefix)) = prefix

\* Python's ordering of two strings: s < t, by code point, a proper prefix first
RECURSIVE StrLess(_, _)
StrLess(s, t) ==
    IF t = <<>> THEN FALSE
    ELSE IF s = <<>> THEN TRUE
    ELSE IF s[1] # t[1] THEN s[1] < t[1]
    ELSE StrLess(Tail(s), Tail(t))

\* str.rfind(ch) as a 1-based position, 0 when ch does not occur
RFind(s, ch) ==
    LET hits == {i \in 1..Len(s) : s[i] = ch}
    IN  IF hits = {} THEN 0 ELSE CHOOSE i \in hits : \A j \in hits : j <= i

\* os.path.basename(p): what follows the last '/' (47)
basename(p) == SubSeq(p, RFind(p, 47) + 1, Len(p))

\* os.path.splitext(p)[1]: from the last '.' (46) of the last path component,
\* unless that component has only dots before it (a leading-dot name has no
\* extension)
splitext(p) ==
    LET sepIndex == RFind(p, 47)
        dotIndex == RFind(p, 46)
    IN  IF /\ dotIndex > sepIndex
           /\ \E k \in (sepIndex + 1)..(dotIndex - 1) : p[k] # 46
        THEN SubSeq(p, dotIndex, Len(p))
        ELSE <<>>

(***************************************************************************)
(* File names used as inputs.                                              *)
(***************************************************************************)
\* "a.txt"
Name_a_txt == <<97, 46, 116, 120, 116>>
\* "B.txt"
Name_B_txt == <<66, 46, 116, 120, 116>>
\* "C.txt"
Name_C_txt == <<67, 46, 116, 120, 116>>
\* "d.XYZ"
Name_d_XYZ == <<100, 46, 88, 89, 90>>
\* "n.eml"
Name_n_eml == <<110, 46, 101, 109, 108>>
\* "f.eml"
Name_f_eml == <<102, 46, 101, 109, 108>>
\* "p.PDF"
Name_p_PDF == <<112, 46, 80, 68, 70>>
\* "i.png"
Name_i_png == <<105, 46, 112, 110, 103>>
\* "unknown", the default name of parse_msg_file
Name_unknown == <<117, 110, 107, 110, 111, 119, 110>>

\* part.get_filename() returns None (or ''): both are falsy
NoFilename == <<>>

(***************************************************************************)
(* MIME parts: what msg.walk() yields.  payload is what                    *)
(* part.get_payload(decode=True) returns: bytes, or None for a part that   *)
(* is itself multipart (f.write(None) then raises TypeError).              *)
(***************************************************************************)
Part(ct, disp, fn, body, payload, size) ==
    [content_type |-> ct, disposition |-> disp, filename |-> fn,
     content |-> body, payload |-> payload, size |-> size]

\* the multipart container itself, the first element of msg.walk()
RootPart == Part("multipart/mixed", "", NoFilename, "", "none", 0)

BodyPartKinds ==
    { Part("text/plain", "", NoFilename, "hello", "bytes", 5),
      Part("text/plain", "", NoFilename, "", "bytes", 0),
      Part("text/html", "", NoFilename, "<p>hi</p>", "bytes", 9),
      Part("application/octet-stream", "attachment", NoFilename, "", "bytes", 4) }

FilePartKinds ==
    { Part("text/plain", "attachment", Name_a_txt, "ay", "bytes", 2),
      Part("text/plain", "", Name_B_txt, "bee", "bytes", 3),
      Part("text/html", "inline", Name_C_txt, "<b>sea</b>", "bytes", 10),
      Part("application/octet-stream", "attachment", Name_d_XYZ, "xyz bytes", "bytes", 2048),
      Part("application/octet-stream", "attachment", Name_n_eml, "eml bytes", "bytes", 300),
      Part("message/rfc822", "attachment", Name_f_eml, "rfc822 message", "none", 0),
      Part("application/pdf", "attachment", Name_p_PDF, "pdf bytes", "bytes", 1000),
      Part("image/png", "inline", Name_i_png, "png bytes", "bytes", 512) }

PartKinds == BodyPartKinds \cup FilePartKinds

\* all sequences over S of length at most n
SeqsUpTo(S, n) == UNION {[1..k -> S] : k \in 0..n}

\* a multipart message: its parts after the container, in walk order
\* a single-part message: is_multipart FALSE and the content of the message
Message(multi, ps, body) == [is_multipart |-> multi, parts |-> ps, content |-> body]

Messages ==
    {Message(TRUE, ps, "") : ps \in SeqsUpTo(PartKinds, MaxParts)}
    \cup {Message(FALSE, <<>>, c) : c \in {"", "hello", "undecodable"}}

\* the messages whole jobs are run on: the file parts that reach every branch
\* of the classifier, in every order, and the single-part messages
JobPartKinds ==
    {p \in FilePartKinds :
        p.filename \in {Name_a_txt, Name_B_txt, Name_C_txt, Name_d_XYZ, Name_n_eml}}

JobMessages ==
    {Message(TRUE, ps, "") : ps \in SeqsUpTo(JobPartKinds, MaxParts)}
    \cup {Message(FALSE, <<>>, c) : c \in {"hello", "undecodable"}}

\* msg.walk(): the container first, then its parts
walk(msg) == <<RootPart>> \o msg.parts

(***************************************************************************)
(* parse_eml_file (email_processor.py 109-170)                             *)
(***************************************************************************)
\* tempfile.mkdtemp() joined with the file name: "/t/" + filename
TempPath(filename) == <<47, 116, 47>> \o filename

Attachment(fn, ct, size) ==
    [filename |-> fn, path |-> TempPath(fn), content_type |-> ct, size |-> size]

\* email_data as built at lines 116-125 (the header fields are copied through
\* and never inspected)
EmptyEmailData == [body_text |-> "", body_html |-> "", attachments |-> <<>>]

\* a faulty variant: only the disposition marker classifies a part as an attachment
IsAttachmentPartMarkerOnly(part) == part.disposition = "attachment"

\* line 133: "attachment" in disposition or part.get_filename()
IsAttachmentPart(part) ==
    part.disposition = "attachment" \/ part.filename # NoFilename

\* lines 140-152: writing the payload to the temp file succeeds
ExtractOk(part) == part.payload = "bytes"

\* part.get_content() / msg.get_content(): raises for an undecodable body
GetContentOk(c) == c # "undecodable"

\* one iteration of the loop at line 129
ParseStep(data, part) ==
    IF IsAttachmentPart(part)
    THEN IF part.filename # NoFilename /\ ExtractOk(part)
         THEN [data EXCEPT !.attachments =
                  Append(@, Attachment(part.filename, part.content_type, part.size))]
         ELSE data
    ELSE IF part.content_type = "text/plain" /\ data.body_text = ""
    THEN IF GetContentOk(part.content)
         THEN [data EXCEPT !.body_text = part.content]
         ELSE data
    ELSE IF part.content_type = "text/html" /\ data.body_html = ""
    THEN IF GetContentOk(part.content)
         THEN [data EXCEPT !.body_html = part.content]
         ELSE data
    ELSE data

RECURSIVE ParseWalk(_, _, _)
ParseWalk(data, ps, i) ==
    IF i > Len(ps) THEN data
    ELSE ParseWalk(ParseStep(data, ps[i]), ps, i + 1)

parse_eml_file(msg) ==
    IF msg.is_multipart
    THEN ParseWalk(EmptyEmailData, walk(msg), 1)
    ELSE IF GetContentOk(msg.content)
         THEN [EmptyEmailData EXCEPT !.body_text = msg.content]
         ELSE EmptyEmailData

(***************************************************************************)
(* parse_msg_file (email_processor.py 172-210)                             *)
(***************************************************************************)
MsgAttachment(long, short, data) ==
    [longFilename |-> long, shortFilename |-> short, data |-> data]

MsgAttachmentKinds ==
    { MsgAttachment(Name_p_PDF, Name_a_txt, "bytes"),
      MsgAttachment(NoFilename, Name_i_png, "bytes"),
      MsgAttachment(NoFilename, NoFilename, "bytes"),
      MsgAttachment(Name_C_txt, NoFilename, "none") }

MsgFiles == SeqsUpTo(MsgAttachmentKinds, MaxParts)

\* line 192: attachment.longFilename or attachment.shortFilename or 'unknown'
MsgFilename(att) ==
    IF att.longFilename # NoFilename THEN att.longFilename
    ELSE IF att.shortFilename # NoFilename THEN att.shortFilename
    ELSE Name_unknown

RECURSIVE MsgWalk(_, _, _)
MsgWalk(data, atts, i) ==
    IF i > Len(atts) THEN data
    ELSE MsgWalk(
           IF atts[i].data = "bytes"
           THEN [data EXCEPT !.attachments =
                    Append(@, Attachment(MsgFilename(atts[i]),
                                         "application/octet-stream", 64))]
           ELSE data,
           atts, i + 1)

\* msg.body / msg.htmlBody are mapped onto the same record shape
parse_msg_file(atts) ==
    MsgWalk([EmptyEmailData EXCEPT !.body_text = "hello"], atts, 1)

(***************************************************************************)
(* Extensions and file signatures the code compares against.               *)
(***************************************************************************)
\* '.eml'
DotEml == <<46, 101, 109, 108>>
\* '.msg'
DotMsg == <<46, 109, 115, 103>>
\* '.pdf'
DotPdf == <<46, 112, 100, 102>>
\* '.txt', '.log', '.csv'
TextExts == {<<46, 116, 120, 116>>, <<46, 108, 111, 103>>, <<46, 99, 115, 118>>}
\* '.png', '.jpg', '.jpeg', '.gif', '.bmp'
ImageExts == {<<46, 112, 110, 103>>, <<46, 106, 112, 103>>, <<46, 106, 112, 101, 103>>,
              <<46, 103, 105, 102>>, <<46, 98, 109, 112>>}
\* b'\xD0\xCF\x11\xE0'
OleMagic == <<208, 207, 17, 224>>
\* b'<!DOCTYPE html>'
DoctypePrefix == <<60, 33, 68, 79, 67, 84, 89, 80, 69, 32, 104, 116, 109, 108, 62>>
\* b'<html'
HtmlPrefix == <<60, 104, 116, 109, 108>>

\* f.read(n): the first n bytes, fewer when the file is shorter
Read(bytes, n) == SubSeq(bytes, 1, IF Len(bytes) < n THEN Len(bytes) ELSE n)

(***************************************************************************)
(* PDF pages in temp_dir.  A page is named by its path (the index prefix   *)
(* and the file name it was made for) and records which template wrote it. *)
(***************************************************************************)
\* 'email', the stem of '00_email.pdf'
Name_email == <<101, 109, 97, 105, 108>>

\* os.path.join(temp_dir, f'{idx:02d}_{name}.pdf')
PdfPath(i, name) == [idx |-> i, name |-> name]

\* line 453
email_pdf_path == PdfPath(0, Name_email)

\* what a template wrote at a path: kind is the template, shown_name the
\* heading and shown_ext the "File type:" line of the unsupported placeholder
Page(path, kind, shown_name, shown_ext) ==
    [path |-> path, kind |-> kind, shown_name |-> shown_name, shown_ext |-> shown_ext]

PathsOnDisk(d) == {pg.path : pg \in d}

(***************************************************************************)
(* convert_attachment_to_pdf (email_processor.py 280-395)                  *)
(***************************************************************************)
\* lines 282-283
AttachmentExt(attachment_path) == Lower(splitext(basename(attachment_path)))

\* the if/elif chain at lines 288, 299, 305, 329, 351
Branch(e) ==
    IF e \in {DotEml, DotMsg} THEN "message"
    ELSE IF e = DotPdf THEN "pdf"
    ELSE IF e \in TextExts THEN "text"
    ELSE IF e \in ImageExts THEN "image"
    ELSE "unsupported"

\* the message stored in an attachment file that is itself a message: n.eml
\* holds a message that attaches a.txt and n.eml (the file name refers back
\* to the message that holds it); any other message file holds no attachment
NestedMessage(attachment_path) ==
    IF basename(attachment_path) = Name_n_eml
    THEN Message(TRUE,
                 <<Part("text/plain", "attachment", Name_a_txt, "ay", "bytes", 2),
                   Part("application/octet-stream", "attachment", Name_n_eml,
                        "eml bytes", "bytes", 300)>>,
                 "")
    ELSE Message(TRUE, <<>>, "")

\* the outcomes of the library calls of one conversion: primary is the branch
\* taken in the try block, placeholder the write_pdf of the except block
ConvertEnvs ==
    { [primary |-> "ok", placeholder |-> "ok"],
      [primary |-> "raise", placeholder |-> "ok"],
      [primary |-> "raise", placeholder |-> "raise"] }

\* a faulty variant: the unsupported branch reports failure like the except block
ConvertReturnsUnsupportedFalse(branch, env) ==
    IF env.primary = "ok" THEN (IF branch = "unsupported" THEN "False" ELSE "True")
    ELSE IF env.placeholder = "ok" THEN "False"
    ELSE "raised"

\* what the call gives back: "True" (lines 297, 303, 327, 349, 372), "False"
\* (line 395), or "raised" when write_pdf at line 394 raises in the handler
ConvertReturns(branch, env) ==
    IF env.primary = "ok" THEN "True"
    ELSE IF env.placeholder = "ok" THEN "False"
    ELSE "raised"

\* the page left at output_pdf_path, as a set (empty when nothing was written)
ConvertWrites(attachment_path, output_pdf_path, env) ==
    LET filename == basename(attachment_path)
        e == AttachmentExt(attachment_path)
    IN  IF env.primary = "ok"
        THEN {Page(output_pdf_path, Branch(e), filename,
                   IF Branch(e) = "unsupported" THEN e ELSE <<>>)}
        ELSE IF env.placeholder = "ok"
        THEN {Page(output_pdf_path, "error", filename, <<>>)}
        ELSE {}

convert_attachment_to_pdf(attachment_path, output_pdf_path, env) ==
    [returned |-> ConvertReturns(Branch(AttachmentExt(attachment_path)), env),
     written |-> ConvertWrites(attachment_path, output_pdf_path, env)]

(***************************************************************************)
(* process_email_to_pdf (email_processor.py 414-485)                       *)
(***************************************************************************)
\* a faulty variant: the header is never looked at, extensionless input is always .eml
DetectExtNoSniff(path, bytes) ==
    IF Lower(splitext(path)) = <<>> THEN DotEml ELSE Lower(splitext(path))

\* lines 425-434
DetectExt(path, bytes) ==
    LET e == Lower(splitext(path))
    IN  IF e = <<>>
        THEN IF StartsWith(Read(bytes, 10), OleMagic) THEN DotMsg ELSE DotEml
        ELSE e

\* a faulty variant: the sort compares the file names as they are
SortKeyCaseSensitive(att) == att.filename

\* line 463: key=lambda x: x['filename'].lower()
SortKey(att) == Lower(att.filename)

\* sorted(): stable insertion of x into an already sorted list
RECURSIVE InsertSorted(_, _)
InsertSorted(x, sortedSeq) ==
    IF sortedSeq = <<>> THEN <<x>>
    ELSE IF StrLess(SortKey(x), SortKey(sortedSeq[1]))
    THEN <<x>> \o sortedSeq
    ELSE <<sortedSeq[1]>> \o InsertSorted(x, Tail(sortedSeq))

\* sorted(atts, key=...): stable, so equal keys keep their order
RECURSIVE sorted(_)
sorted(atts) ==
    IF atts = <<>> THEN <<>>
    ELSE InsertSorted(atts[Len(atts)], sorted(SubSeq(atts, 1, Len(atts) - 1)))

sorted_attachments == sorted(email_data.attachments)

\* a faulty variant: the loop stops one attachment early
AfterAttachmentStopsEarly(i, n) == IF i >= n - 1 THEN "Merge" ELSE "ConvertAttachments"

\* where the job is after iteration i of the loop at line 465 over n
\* attachments: the loop goes on, or line 472 is next
AfterAttachment(i, n) == IF i = n THEN "Merge" ELSE "ConvertAttachments"

\* a faulty variant: the email page is not counted
JobResultAttachmentPagesOnly(data, pdfs) ==
    [success |-> TRUE, attachment_count |-> Len(data.attachments),
     total_pages |-> Len(pdfs) - 1]

\* lines 478-485
JobResult(data, pdfs) ==
    [success |-> TRUE, attachment_count |-> Len(data.attachments),
     total_pages |-> Len(pdfs)]

\* merge_pdfs (lines 397-409): the listed paths that exist, in list order
merge_pdfs(pdfs, d) == SelectSeq(pdfs, LAMBDA path : path \in PathsOnDisk(d))

(***************************************************************************)
(* Idle values of the transport layer and of the job.                     *)
(***************************************************************************)
NoRequest == [endpoint |-> "none", data |-> "none", fetch |-> "none", file_url |-> "none"]

NoResponse == [status |-> 0, success |-> FALSE, body |-> "none"]

NoResult == [success |-> FALSE, attachment_count |-> 0 - 1, total_pages |-> 0 - 1]

(***************************************************************************)
(* parse_eml_file called on its own on every message of the input set.     *)
(***************************************************************************)
NotParsed == [body_text |-> "not parsed", body_html |-> "not parsed", attachments |-> <<>>]

IdleTransport ==
    /\ entry = "none"
    /\ tpc = "idle"
    /\ request = NoRequest
    /\ response = NoResponse
    /\ tempInput = "absent"
    /\ tempOutput = "absent"
    /\ unlinkTried = {}
    /\ email_file_path = <<>>
    /\ content = <<>>
    /\ fileExists = FALSE

IdleJob ==
    /\ pc = "NotStarted"
    /\ ext = <<>>
    /\ parser = "none"
    /\ sniffed = FALSE
    /\ email_data = NotParsed
    /\ idx = 0
    /\ pdf_list = <<>>
    /\ disk = {}
    /\ attLog = <<>>
    /\ merged = <<>>
    /\ result = NoResult

ParseInit ==
    /\ IdleTransport
    /\ IdleJob
    /\ parts \in Messages
    /\ parsed = NotParsed

ParseEml ==
    /\ parsed = NotParsed
    /\ parsed' = parse_eml_file(parts)
    /\ UNCHANGED <<parts, transportVars, jobVars>>

ParseNext == ParseEml

SpecParse == ParseInit /\ [][ParseNext]_vars

(***************************************************************************)
(* The whole program: a job is started from the command line or by one of  *)
(* the two POST handlers, runs process_email_to_pdf step by step, and the  *)
(* caller then answers.                                                    *)
(***************************************************************************)
Init ==
    /\ IdleTransport
    /\ IdleJob
    /\ parts = Message(FALSE, <<>>, "")
    /\ parsed = NotParsed

\* contents of the input file (its first bytes)
\* an HTML page starting with b'<!DOCTYPE html>' followed by a newline
DoctypePage == DoctypePrefix \o <<10>>
\* an HTML page starting with b'<html>'
HtmlPage == HtmlPrefix \o <<62, 10>>
\* a compound document: D0 CF 11 E0 A1 B1 1A E1
OleFile == OleMagic \o <<161, 177, 26, 225>>
\* only the first three bytes of the signature
OleShort == <<208, 207, 17>>
\* b'From:'
PlainFile == <<70, 114, 111, 109, 58>>

\* os.path.join(tempfile.gettempdir(), f'email_{...}'): "/tmp/email_0"
temp_email_path == <<47, 116, 109, 112, 47, 101, 109, 97, 105, 108, 95, 48>>

CliFile(path, bytes, exists) == [path |-> path, bytes |-> bytes, exists |-> exists]

\* command lines: <program> <email_file> <output_pdf>
CliFiles ==
    { CliFile(<<109, 46, 101, 109, 108>>, PlainFile, TRUE),        \* m.eml
      CliFile(<<109, 46, 101, 109, 108>>, OleFile, TRUE),          \* m.eml
      CliFile(<<109, 46, 77, 83, 71>>, OleFile, TRUE),             \* m.MSG
      CliFile(<<109, 46, 116, 120, 116>>, PlainFile, TRUE),        \* m.txt
      CliFile(<<109>>, OleFile, TRUE),                             \* m
      CliFile(<<109>>, OleShort, TRUE),                            \* m
      CliFile(<<46, 101, 109, 108>>, OleFile, TRUE),               \* .eml
      CliFile(<<97, 46, 98, 47, 109>>, OleFile, TRUE),             \* a.b/m
      CliFile(<<109>>, <<>>, FALSE),                               \* m, missing
      CliFile(<<109, 46, 101, 109, 108>>, <<>>, FALSE) }           \* m.eml, missing

\* email_processor.py 489-500: the command line starts the job
CliStart ==
    /\ entry = "none"
    /\ \E f \in CliFiles :
         /\ email_file_path' = f.path
         /\ content' = f.bytes
         /\ fileExists' = f.exists
    /\ entry' = "cli"
    /\ tpc' = "processing"
    /\ pc' = "DetectType"
    /\ UNCHANGED <<request, response, tempInput, tempOutput, unlinkTried>>
    /\ UNCHANGED <<ext, parser, sniffed, email_data, idx, pdf_list, disk, attLog,
                   merged, result, parseVars>>

\* lines 424-441, up to the choice of the parser
DetectType ==
    /\ pc = "DetectType"
    /\ LET noExt == Lower(splitext(email_file_path)) = <<>>
       IN  IF noExt /\ ~fileExists
           THEN \* open() at line 429 raises
                /\ pc' = "Raised"
                /\ UNCHANGED <<ext, sniffed>>
           ELSE /\ ext' = DetectExt(email_file_path, content)
                /\ sniffed' = noExt
                /\ pc' = IF ext' \in {DotEml, DotMsg} THEN "Parse" ELSE "Raised"
    /\ UNCHANGED <<parser, email_data, idx, pdf_list, disk, attLog, merged, result>>
    /\ UNCHANGED <<transportVars, parseVars>>

\* lines 436-439: parse_eml_file or parse_msg_file; either may raise
Parse ==
    /\ pc = "Parse"
    /\ parser' = IF ext = DotEml THEN "eml" ELSE "msg"
    /\ \/ /\ pc' = "Raised"
          /\ UNCHANGED email_data
       \/ /\ fileExists
          /\ ext = DotEml
          /\ \E msg \in JobMessages : email_data' = parse_eml_file(msg)
          /\ pc' = "RenderEmailPage"
       \/ /\ fileExists
          /\ ext = DotMsg
          /\ StartsWith(content, OleMagic)
          /\ \E atts \in MsgFiles : email_data' = parse_msg_file(atts)
          /\ pc' = "RenderEmailPage"
    /\ UNCHANGED <<ext, sniffed, idx, pdf_list, disk, attLog, merged, result>>
    /\ UNCHANGED <<transportVars, parseVars>>

\* lines 450-457: create_gmail_html, convert_html_to_pdf (which may raise),
\* pdf_list = [email_pdf_path]; step 3 of the function is next
RenderEmailPage ==
    /\ pc = "RenderEmailPage"
    /\ \/ /\ pc' = "Raised"
          /\ UNCHANGED <<disk, pdf_list, idx>>
       \/ /\ disk' = {Page(email_pdf_path, "email", Name_email, <<>>)}
          /\ pdf_list' = <<email_pdf_path>>
          /\ idx' = 1
          /\ pc' = "ConvertAttachments"
    /\ UNCHANGED <<ext, parser, sniffed, email_data, attLog, merged, result>>
    /\ UNCHANGED <<transportVars, parseVars>>

\* step 3 (lines 459-469): with nothing attached line 459 skips the loop;
\* otherwise one iteration of the loop at lines 465-469 over
\* sorted_attachments
ConvertAttachments ==
    /\ pc = "ConvertAttachments"
    /\ IF email_data.attachments = <<>>
       THEN /\ pc' = "Merge"
            /\ UNCHANGED <<idx, pdf_list, disk, attLog>>
       ELSE /\ idx <= Len(sorted_attachments)
            /\ \E env \in ConvertEnvs :
                 LET att == sorted_attachments[idx]
                     att_pdf_path == PdfPath(idx, att.filename)
                     e == AttachmentExt(att.path)
                     out == convert_attachment_to_pdf(att.path, att_pdf_path, env)
                     inner == IF Branch(e) = "message" /\ env.primary = "ok"
                              THEN parse_eml_file(NestedMessage(att.path)).attachments
                              ELSE <<>>
                 IN  /\ disk' = disk \cup out.written
                     /\ attLog' = Append(attLog,
                            [filename |-> att.filename, ext |-> e, branch |-> Branch(e),
                             env |-> env, returned |-> out.returned,
                             path |-> att_pdf_path,
                             nested_attachments |->
                                [k \in 1..Len(inner) |-> inner[k].filename]])
                     /\ pdf_list' = IF out.returned = "True"
                                    THEN Append(pdf_list, att_pdf_path) ELSE pdf_list
                     /\ IF out.returned = "raised"
                        THEN pc' = "Raised" /\ idx' = idx
                        ELSE /\ idx' = idx + 1
                             /\ pc' = AfterAttachment(idx, Len(sorted_attachments))
    /\ UNCHANGED <<ext, parser, sniffed, email_data, merged, result>>
    /\ UNCHANGED <<transportVars, parseVars>>

\* lines 472-485: merge_pdfs (PdfMerger may raise on a page it cannot read),
\* then the result is returned
Merge ==
    /\ pc = "Merge"
    /\ \/ /\ pc' = "Raised"
          /\ UNCHANGED <<merged, result, tempOutput>>
       \/ /\ merged' = merge_pdfs(pdf_list, disk)
          /\ tempOutput' = "present"
          /\ result' = JobResult(email_data, pdf_list)
          /\ pc' = "Done"
    /\ UNCHANGED <<ext, parser, sniffed, email_data, idx, pdf_list, disk, attLog>>
    /\ UNCHANGED <<entry, tpc, request, response, tempInput, unlinkTried,
                   email_file_path, content, fileExists, parseVars>>

\* email_processor.py 499-506: exit status of the command line
CliFinish ==
    /\ entry = "cli"
    /\ tpc = "processing"
    /\ pc \in {"Done", "Raised"}
    /\ response' = [status |-> IF pc = "Done" THEN 0 ELSE 1,
                    success |-> pc = "Done", body |-> "exit status"]
    /\ tpc' = "responded"
    /\ UNCHANGED <<entry, request, tempInput, tempOutput, unlinkTried,
                   email_file_path, content, fileExists>>
    /\ UNCHANGED <<jobVars, parseVars>>

(***************************************************************************)
(* The transport layer (main.py): POST /convert and POST /convert/download *)
(***************************************************************************)
HttpRequest(endpoint, data, fetch, bytes) ==
    [endpoint |-> endpoint, data |-> data, fetch |-> fetch, bytes |-> bytes]

\* data: the JSON body (none at all, one without fileUrl and googleDriveFileId,
\* one with fileUrl, one with googleDriveFileId); fetch: what requests.get and
\* iter_content do; bytes: the payload the remote server sends
HttpRequests ==
    {HttpRequest(e, d, "none", <<>>) : e \in {"convert", "download"}, d \in {"none", "no_url"}}
    \cup {HttpRequest(e, d, f, <<>>) :
             e \in {"convert", "download"}, d \in {"fileUrl", "googleDriveFileId"},
             f \in {"network_error", "http_error"}}
    \cup {HttpRequest(e, "fileUrl", "stream_error", <<>>) : e \in {"convert", "download"}}
    \cup {HttpRequest(e, "fileUrl", "ok", b) :
             e \in {"convert", "download"},
             b \in {DoctypePage, HtmlPage, OleFile, PlainFile}}

\* lines 76-77 / 179-180: the cloud-drive identifier becomes a download URL
FileUrl(data) ==
    IF data = "googleDriveFileId" THEN "https://drive.google.com/uc?export=download&id="
    ELSE IF data = "fileUrl" THEN "fileUrl"
    ELSE "none"

\* line 102
IsHtmlPage(header) == StartsWith(header, DoctypePrefix) \/ StartsWith(header, HtmlPrefix)

\* lines 98-107 exist in convert_email_to_pdf only
SniffsPayload(endpoint) == endpoint = "convert"

ErrorResponse(status) == [status |-> status, success |-> FALSE, body |-> "error"]

\* The handler up to the call of process_email_to_pdf:
\* main.py 56-112 (convert_email_to_pdf) and 161-200 (convert_and_download)
HandleRequest(rq) ==
    /\ entry = "none"
    /\ entry' = rq.endpoint
    /\ request' = [endpoint |-> rq.endpoint, data |-> rq.data, fetch |-> rq.fetch,
                   file_url |-> FileUrl(rq.data)]
    /\ IF rq.data \in {"none", "no_url"}
       THEN \* lines 59-73
            /\ response' = ErrorResponse(400)
            /\ tpc' = "responded"
            /\ UNCHANGED <<tempInput, unlinkTried, email_file_path, content, fileExists, pc>>
       ELSE IF rq.fetch = "network_error"
       THEN \* requests.get raises: the handler's except block (lines 149-154)
            /\ response' = ErrorResponse(500)
            /\ tpc' = "responded"
            /\ UNCHANGED <<tempInput, unlinkTried, email_file_path, content, fileExists, pc>>
       ELSE IF rq.fetch = "http_error"
       THEN \* lines 85-89
            /\ response' = ErrorResponse(400)
            /\ tpc' = "responded"
            /\ UNCHANGED <<tempInput, unlinkTried, email_file_path, content, fileExists, pc>>
       ELSE IF rq.fetch = "stream_error"
       THEN \* iter_content raises after open(temp_email_path, 'wb') created the file
            /\ response' = ErrorResponse(500)
            /\ tpc' = "responded"
            /\ tempInput' = "present"
            /\ UNCHANGED <<unlinkTried, email_file_path, content, fileExists, pc>>
       ELSE IF SniffsPayload(rq.endpoint) /\ IsHtmlPage(Read(rq.bytes, 100))
       THEN \* lines 102-107: os.unlink is not guarded here, so when it raises
            \* the except block answers instead
            \E inputGone \in BOOLEAN :
               /\ unlinkTried' = {"input"}
               /\ email_file_path' = temp_email_path
               /\ content' = rq.bytes
               /\ fileExists' = ~inputGone
               /\ tempInput' = IF inputGone THEN "deleted" ELSE "present"
               /\ response' = IF inputGone THEN ErrorResponse(400) ELSE ErrorResponse(500)
               /\ tpc' = "responded"
               /\ UNCHANGED pc
       ELSE \* lines 109-112: process_email_to_pdf is called
            /\ email_file_path' = temp_email_path
            /\ content' = rq.bytes
            /\ fileExists' = TRUE
            /\ tempInput' = "present"
            /\ tpc' = "processing"
            /\ pc' = "DetectType"
            /\ UNCHANGED <<response, unlinkTried>>
    /\ UNCHANGED <<tempOutput, ext, parser, sniffed, email_data, idx, pdf_list, disk,
                   attLog, merged, result, parseVars>>

\* POST /convert arrives
ConvertRequest ==
    \E rq \in HttpRequests : rq.endpoint = "convert" /\ HandleRequest(rq)

\* POST /convert/download arrives
DownloadRequest ==
    \E rq \in HttpRequests : rq.endpoint = "download" /\ HandleRequest(rq)

\* convert_email_to_pdf after process_email_to_pdf returned or raised
\* (main.py 112-154).  inputGone / outputGone: whether each os.unlink succeeds.
ConvertRespond ==
    /\ entry = "convert"
    /\ tpc = "processing"
    /\ pc \in {"Done", "Raised"}
    /\ tpc' = "responded"
    /\ IF pc = "Raised"
       THEN \* lines 149-154
            /\ response' = ErrorResponse(500)
            /\ UNCHANGED <<tempInput, tempOutput, unlinkTried>>
       ELSE IF ~result.success
       THEN \* lines 114-120
            /\ unlinkTried' = {"input"}
            /\ tempInput' \in {"present", "deleted"}
            /\ response' = ErrorResponse(500)
            /\ UNCHANGED tempOutput
       ELSE \* lines 122-147: both unlinks share one try block
            \E inputGone \in BOOLEAN, outputGone \in BOOLEAN :
               /\ ~inputGone => ~outputGone
               /\ unlinkTried' = IF inputGone THEN {"input", "output"} ELSE {"input"}
               /\ tempInput' = IF inputGone THEN "deleted" ELSE "present"
               /\ tempOutput' = IF outputGone THEN "deleted" ELSE "present"
               /\ response' = [status |-> 200, success |-> TRUE, body |-> "pdfBase64"]
    /\ UNCHANGED <<entry, request, email_file_path, content, fileExists>>
    /\ UNCHANGED <<jobVars, parseVars>>

\* convert_and_download after process_email_to_pdf returned or raised
\* (main.py 200-222)
DownloadRespond ==
    /\ entry = "download"
    /\ tpc = "processing"
    /\ pc \in {"Done", "Raised"}
    /\ tpc' = "responded"
    /\ IF pc = "Raised"
       THEN \* lines 217-222
            /\ response' = ErrorResponse(500)
            /\ UNCHANGED <<tempInput, unlinkTried>>
       ELSE IF ~result.success
       THEN \* lines 202-207
            /\ unlinkTried' = {"input"}
            /\ tempInput' \in {"present", "deleted"}
            /\ response' = ErrorResponse(500)
       ELSE \* lines 210-215: send_file, nothing is deleted
            /\ response' = [status |-> 200, success |-> TRUE, body |-> "email_printout.pdf"]
            /\ UNCHANGED <<tempInput, unlinkTried>>
    /\ UNCHANGED <<entry, request, tempOutput, email_file_path, content, fileExists>>
    /\ UNCHANGED <<jobVars, parseVars>>

Next ==
    \/ CliStart
    \/ ConvertRequest
    \/ DownloadRequest
    \/ DetectType
    \/ Parse
    \/ RenderEmailPage
    \/ ConvertAttachments
    \/ Merge
    \/ CliFinish
    \/ ConvertRespond
    \/ DownloadRespond

Spec == Init /\ [][Next]_vars

(***************************************************************************)
(* Properties.                                                             *)
(***************************************************************************)
Range(f) == {f[k] : k \in DOMAIN f}

\* the file names of a list of records with a filename field
Filenames(recs) == [k \in 1..Len(recs) |-> recs[k].filename]

\* the page written at a path, as a set
PagesAt(path) == {pg \in disk : pg.path = path}

\* C1: every attachment whose conversion raised inside the try block (and whose
\* error placeholder could be written) has an error placeholder on disk, was
\* reported as converted, and its placeholder is in the merge list; so at
\* Merge the list holds the email page plus one entry per parsed attachment.
C1_ErrorPlaceholderMerged ==
    /\ \A k \in 1..Len(attLog) :
          (attLog[k].env.primary = "raise" /\ attLog[k].env.placeholder = "ok")
          => /\ \E pg \in PagesAt(attLog[k].path) : pg.kind = "error"
             /\ attLog[k].returned = "True"
             /\ attLog[k].path \in Range(pdf_list)
    /\ pc \in {"Merge", "Done"} => Len(pdf_list) = Len(email_data.attachments) + 1

\* C2: once the email page is rendered, no failure while converting an
\* attachment (a failing render of its page or of its placeholder included)
\* aborts the job: no call of convert_attachment_to_pdf ends the job in Raised.
C2_AttachmentFailureNeverAborts ==
    ~(/\ pc = "Raised"
      /\ attLog # <<>>
      /\ attLog[Len(attLog)].returned = "raised")

\* C3: the merge list starts with the email page, the attachment pages follow
\* in ascending order of lower-cased file name, and merge_pdfs appends the
\* list in exactly that order.
C3_MergeOrder ==
    /\ pdf_list # <<>> =>
          /\ pdf_list[1] = email_pdf_path
          /\ \A i \in 2..Len(pdf_list) : \A j \in 2..Len(pdf_list) :
                i < j => ~StrLess(Lower(pdf_list[j].name), Lower(pdf_list[i].name))
    /\ pc = "Done" => merged = pdf_list

\* C3 witness: the parser extracted B.txt, a.txt, C.txt and the merged
\* document is email, a.txt, B.txt, C.txt.
C3_Witness ==
    /\ pc = "Done"
    /\ Filenames(email_data.attachments) = <<Name_B_txt, Name_a_txt, Name_C_txt>>
    /\ [k \in 1..Len(merged) |-> merged[k].name]
          = <<Name_email, Name_a_txt, Name_B_txt, Name_C_txt>>

\* C4: on /convert and on /convert/download a payload that begins with
\* '<!DOCTYPE html>' or '<html' is rejected with an error envelope and
\* process_email_to_pdf is never started on it.
C4_HtmlNeverProcessed ==
    (/\ entry \in {"convert", "download"}
     /\ request.fetch = "ok"
     /\ StartsWith(content, DoctypePrefix) \/ StartsWith(content, HtmlPrefix))
    => /\ pc = "NotStarted"
       /\ tpc = "responded" /\ ~response.success

\* C5: when a request that downloaded its input has been answered, deletion
\* of the temporary input file was attempted, and so was deletion of the
\* temporary output file if it was created.
C5_CleanupAlwaysAttempted ==
    (/\ entry \in {"convert", "download"}
     /\ tpc = "responded"
     /\ request.fetch = "ok")
    => /\ "input" \in unlinkTried
       /\ tempOutput # "absent" => "output" \in unlinkTried

\* C6: every download failure (non-200 answer, or the fetch itself failing)
\* is answered with HTTP 400, and HTTP 500 only answers failures of the
\* conversion.
C6_DownloadFailureIs400 ==
    (entry \in {"convert", "download"} /\ tpc = "responded")
    => /\ request.fetch \in {"http_error", "network_error", "stream_error"}
          => response.status = 400
       /\ response.status = 500 => pc = "Raised"

\* the first four bytes of the file are D0 CF 11 E0
HasOleSignature(bytes) ==
    /\ Len(bytes) >= 4
    /\ bytes[1] = 208 /\ bytes[2] = 207 /\ bytes[3] = 17 /\ bytes[4] = 224

\* the parser the claim C7 asks for: by signature without an extension, by
\* lower-cased extension with one
ExpectedParser(path, bytes) ==
    IF splitext(path) = <<>>
    THEN IF HasOleSignature(bytes) THEN "msg" ELSE "eml"
    ELSE IF Lower(splitext(path)) = DotEml THEN "eml"
    ELSE IF Lower(splitext(path)) = DotMsg THEN "msg"
    ELSE "unsupported"

\* C7: without an extension the .msg parser is used iff the file starts with
\* D0 CF 11 E0, the .eml parser otherwise; with an extension the content is
\* not read, .eml and .msg select their parser and anything else fails
\* before any parsing, rendering or merging.
C7_ParserSelection ==
    (pc \notin {"NotStarted", "DetectType"} /\ (fileExists \/ splitext(email_file_path) # <<>>))
    => LET want == ExpectedParser(email_file_path, content)
       IN  /\ sniffed = (splitext(email_file_path) = <<>>)
           /\ want = "eml" => ext = DotEml /\ parser \in {"none", "eml"}
           /\ want = "msg" => ext = DotMsg /\ parser \in {"none", "msg"}
           /\ want # "unsupported" /\ pc # "Parse" => parser = want
           /\ want = "unsupported" =>
                 /\ pc = "Raised"
                 /\ parser = "none"
                 /\ email_data = NotParsed
                 /\ disk = {} /\ pdf_list = <<>> /\ merged = <<>>
                 /\ tempOutput = "absent"

\* C7 witness: the extensionless file ".eml" carrying the compound-document
\* signature was parsed as .msg and the job finished.
C7_Witness ==
    /\ pc = "Done"
    /\ splitext(email_file_path) = <<>>
    /\ HasOleSignature(content)
    /\ sniffed
    /\ parser = "msg"

\* the parts of a message that carry a file name, in walk order
FilenameParts(msg) == SelectSeq(walk(msg), LAMBDA p : p.filename # NoFilename)

\* C8: for a multipart message, every attachment entry comes from a part
\* with a file name, no such part is taken as the body, and when no
\* extraction fails the entries are exactly the filename-bearing parts, one
\* each, in walk order.
C8_OneEntryPerFilenamePart ==
    (parsed # NotParsed /\ parts.is_multipart)
    => LET named == FilenameParts(parts)
       IN  /\ Len(parsed.attachments) <= Len(named)
           /\ \A k \in 1..Len(parsed.attachments) :
                 parsed.attachments[k].filename \in Range(Filenames(named))
           /\ \A k \in 1..Len(named) :
                 named[k].content \notin {parsed.body_text, parsed.body_html}
           /\ (\A k \in 1..Len(named) : ExtractOk(named[k]))
              => Filenames(parsed.attachments) = Filenames(named)

\* C8 witness: a walk of B.txt (named, no disposition, text/plain), a part
\* with the attachment marker but no name, and a plain-text body: one entry,
\* and the body is the unnamed text part.
C8_Witness ==
    /\ parsed # NotParsed
    /\ Len(parts.parts) = 3
    /\ parts.parts[1].filename = Name_B_txt
    /\ parts.parts[2].disposition = "attachment" /\ parts.parts[2].filename = NoFilename
    /\ Filenames(parsed.attachments) = <<Name_B_txt>>
    /\ parsed.body_text = "hello"

\* the extensions the classifier knows
KnownExts == {DotEml, DotMsg, DotPdf} \cup TextExts \cup ImageExts

\* '.xyz'
DotXyz == <<46, 120, 121, 122>>

\* C9: an attachment whose lower-cased extension is not a known one and whose
\* placeholder renders is converted to the "cannot convert" page naming that
\* extension, counts as converted, is in the merge list, and the finished
\* job reports success.
C9_UnsupportedPlaceholder ==
    /\ \A k \in 1..Len(attLog) :
          (/\ Lower(splitext(attLog[k].filename)) \notin KnownExts
           /\ attLog[k].env.primary = "ok")
          => /\ attLog[k].returned = "True"
             /\ attLog[k].path \in Range(pdf_list)
             /\ \E pg \in PagesAt(attLog[k].path) :
                   /\ pg.kind = "unsupported"
                   /\ pg.shown_ext = Lower(splitext(attLog[k].filename))
    /\ pc = "Done" => result.success

\* C9 witness: d.XYZ was converted to a placeholder naming .xyz, it was
\* merged, and the job reported success.
C9_Witness ==
    /\ pc = "Done"
    /\ result.success
    /\ \E k \in 1..Len(attLog) :
          /\ attLog[k].filename = Name_d_XYZ
          /\ attLog[k].path \in Range(merged)
          /\ \E pg \in PagesAt(attLog[k].path) :
                pg.kind = "unsupported" /\ pg.shown_ext = DotXyz

\* C10: a message with no attachments hands the merger the email page alone,
\* and the result has attachment_count = 0 and total_pages = 1.
C10_NoAttachments ==
    (pc \in {"Merge", "Done"} /\ email_data.attachments = <<>>)
    => /\ pdf_list = <<email_pdf_path>>
       /\ pc = "Done" =>
             /\ merged = <<email_pdf_path>>
             /\ result.attachment_count = 0
             /\ result.total_pages = 1

\* C10 witness: a finished job on a message without attachments.
C10_Witness ==
    /\ pc = "Done"
    /\ email_data.attachments = <<>>
    /\ merged = <<email_pdf_path>>
    /\ result.total_pages = 1

\* the attachments found inside the nested messages that the first n
\* conversions of the job parsed and rendered
RECURSIVE NestedFound(_)
NestedFound(n) ==
    IF n = 0 THEN 0
    ELSE NestedFound(n - 1)
         + (IF attLog[n].returned = "True" THEN Len(attLog[n].nested_attachments) ELSE 0)

\* the conversions among the first n that gave the merge list a page
RECURSIVE Converted(_)
Converted(n) ==
    IF n = 0 THEN 0
    ELSE Converted(n - 1) + (IF attLog[n].returned = "True" THEN 1 ELSE 0)

\* C11: conversion is recursive over nested messages: in a finished job every
\* attachment of a converted nested message was converted too and has its own
\* page in the merged output, next to the email page and the pages of the
\* message's own attachments.
C11_NestedAttachmentsMerged ==
    pc = "Done"
    => /\ Len(attLog) >= Len(email_data.attachments) + NestedFound(Len(attLog))
       /\ Len(merged) >= 1 + Converted(Len(attLog)) + NestedFound(Len(attLog))

\* the steps of process_email_to_pdf in the order of its code
JobSteps == <<"DetectType", "Parse", "RenderEmailPage", "ConvertAttachments", "Merge", "Done">>

StepRank(p) == CHOOSE i \in 1..Len(JobSteps) : JobSteps[i] = p

\* C12: a job moves through DetectType, Parse, RenderEmailPage,
\* ConvertAttachments, Merge, Done in that order: every change of step goes to
\* the next step of the list or aborts with an exception, so no step is
\* entered twice or returned to; Merge and Done are reached only with every
\* attachment processed; a job that aborted before step 3 converted no
\* attachment, merged nothing and wrote no output PDF.
C12_StepOrder ==
    /\ [][pc' # pc =>
            \/ pc = "NotStarted" /\ pc' = "DetectType"
            \/ /\ pc \in Range(JobSteps) \ {"Done"}
               /\ pc' \in {JobSteps[StepRank(pc) + 1], "Raised"}]_vars
    /\ [](pc \in {"Merge", "Done"}
            => (Len(attLog) = Len(email_data.attachments)
                /\ idx = Len(email_data.attachments) + 1))
    /\ [][(pc \in {"DetectType", "Parse", "RenderEmailPage"} /\ pc' = "Raised")
            => (pdf_list' = <<>> /\ attLog' = <<>>)]_vars
    /\ []((pc = "Raised" /\ pdf_list = <<>>)
            => (attLog = <<>> /\ merged = <<>> /\ result = NoResult
                /\ tempOutput # "present"))

\* C12 witness: a job over several attachments went through every step and
\* wrote the merged output.
C12_Witness ==
    /\ pc = "Done"
    /\ Len(email_data.attachments) >= 2
    /\ Len(attLog) = Len(email_data.attachments)
    /\ Len(merged) >= 2
    /\ tempOutput = "present"

\* an attached message file that holds an attachment of its own file name
SelfAttaching(att) ==
    /\ Branch(AttachmentExt(att.path)) = "message"
    /\ att.filename \in Range(Filenames(parse_eml_file(NestedMessage(att.path)).attachments))

\* C13: a job on a message with a self-attaching message among its
\* attachments re-enters nested message conversion without bound and so never
\* reaches Done.
C13_SelfAttachingNeverDone ==
    (\E k \in 1..Len(email_data.attachments) : SelfAttaching(email_data.attachments[k]))
    => pc # "Done"

====
